---- MODULE Spec2Model ----
(***************************************************************************)
(* temp-convert: a command line tool converting one temperature value      *)
(* between Celsius, Fahrenheit and Kelvin (src/src/lib.rs, src/src/main.rs,*)
(* src/src/utils.rs).                                                      *)
(*                                                                         *)
(* The program computes on f64.  An f64 is modelled bit-exactly as an IEEE *)
(* 754 binary64 value: a record [k, s, m, e] with kind k ("num", "inf",    *)
(* "nan"), sign s (0 or 1), and for a number the magnitude m * 2^e, where   *)
(* m is a 53 bit mantissa held as an arbitrary precision natural (TLC's    *)
(* integers are 32 bit).  Every arithmetic operation computes the exact    *)
(* result and rounds it to nearest, ties to even, as the hardware does.    *)
(* Text (command line tokens, the program's output) is a sequence of one   *)
(* character strings.                                                      *)
(***************************************************************************)
EXTENDS Integers, Sequences, FiniteSets

(***************************************************************************)
(* Arbitrary precision naturals: little-endian sequences of limbs in       *)
(* 0 .. Base-1 with no most significant zero limb (zero is <<>>).          *)
(***************************************************************************)
Base == 2^15

RECURSIVE IntBitLen(_)
IntBitLen(i) == IF i = 0 THEN 0 ELSE 1 + IntBitLen(i \div 2)

LimbBits == IntBitLen(Base) - 1

Max(a, b) == IF a >= b THEN a ELSE b
Min(a, b) == IF a <= b THEN a ELSE b

\* Every operation over limbs splits its range in halves, so that the depth
\* of evaluation grows with the logarithm of the length.  After(a, b) is b,
\* evaluated once a is: the first half of a range before the second.
After(a, b) == IF a = a THEN b ELSE b

BnNorm(n) ==
    LET top == CHOOSE i \in 0..Len(n) :
                   (i = 0 \/ n[i] # 0) /\ \A j \in (i + 1)..Len(n) : n[j] = 0
    IN  SubSeq(n, 1, top)

BnFromInt(i) ==
    IF i = 0 THEN <<>>
    ELSE IF i < Base THEN <<i>>
    ELSE <<i % Base, i \div Base>>

Limb(n, i) == IF i <= Len(n) THEN n[i] ELSE 0

\* Limbs lo..hi of n * k + c and the carry out, for k <= Base, c < Base.
RECURSIVE BnMulAddAt(_, _, _, _, _)
BnMulAddAt(n, k, c, lo, hi) ==
    IF lo > hi THEN [d |-> <<>>, c |-> c]
    ELSE IF lo = hi
    THEN LET t == n[lo] * k + c IN [d |-> <<t % Base>>, c |-> t \div Base]
    ELSE LET mid == (lo + hi) \div 2
             L   == BnMulAddAt(n, k, c, lo, mid)
             H   == BnMulAddAt(n, k, L.c, mid + 1, hi)
         IN  After(L.c, [d |-> L.d \o H.d, c |-> H.c])

BnMulAdd(n, k, c) ==
    LET r == BnMulAddAt(n, k, c, 1, Len(n)) IN BnNorm(r.d \o BnFromInt(r.c))

\* Limbs lo..hi of the quotient of n by a limb-sized k > 0, from limb hi
\* down, entered with remainder r.
RECURSIVE BnDivSmallAt(_, _, _, _, _)
BnDivSmallAt(n, k, r, lo, hi) ==
    IF lo > hi THEN [d |-> <<>>, r |-> r]
    ELSE IF lo = hi
    THEN LET t == r * Base + n[lo] IN [d |-> <<t \div k>>, r |-> t % k]
    ELSE LET mid == (lo + hi) \div 2
             H   == BnDivSmallAt(n, k, r, mid + 1, hi)
             L   == BnDivSmallAt(n, k, H.r, lo, mid)
         IN  After(H.r, [d |-> L.d \o H.d, r |-> L.r])

BnDivSmall(n, k) ==
    LET d == BnDivSmallAt(n, k, 0, 1, Len(n))
    IN  [q |-> BnNorm(d.d), r |-> d.r]

RECURSIVE BnAddAt(_, _, _, _, _)
BnAddAt(a, b, c, lo, hi) ==
    IF lo > hi THEN [d |-> <<>>, c |-> c]
    ELSE IF lo = hi
    THEN LET t == Limb(a, lo) + Limb(b, lo) + c
         IN  [d |-> <<t % Base>>, c |-> t \div Base]
    ELSE LET mid == (lo + hi) \div 2
             L   == BnAddAt(a, b, c, lo, mid)
             H   == BnAddAt(a, b, L.c, mid + 1, hi)
         IN  After(L.c, [d |-> L.d \o H.d, c |-> H.c])

BnAdd(a, b) ==
    LET r == BnAddAt(a, b, 0, 1, Max(Len(a), Len(b)))
    IN  BnNorm(r.d \o BnFromInt(r.c))

\* a - b for a >= b; c is the borrow.
RECURSIVE BnSubAt(_, _, _, _, _)
BnSubAt(a, b, c, lo, hi) ==
    IF lo > hi THEN [d |-> <<>>, c |-> c]
    ELSE IF lo = hi
    THEN LET t == a[lo] - Limb(b, lo) - c
         IN  IF t < 0 THEN [d |-> <<t + Base>>, c |-> 1] ELSE [d |-> <<t>>, c |-> 0]
    ELSE LET mid == (lo + hi) \div 2
             L   == BnSubAt(a, b, c, lo, mid)
             H   == BnSubAt(a, b, L.c, mid + 1, hi)
         IN  After(L.c, [d |-> L.d \o H.d, c |-> H.c])

BnSub(a, b) == BnNorm(BnSubAt(a, b, 0, 1, Len(a)).d)

\* -1, 0, 1 as a < b, a = b, a > b.
BnCmp(a, b) ==
    IF Len(a) < Len(b) THEN -1
    ELSE IF Len(a) > Len(b) THEN 1
    ELSE IF a = b THEN 0
    ELSE LET i == CHOOSE i \in 1..Len(a) :
                      a[i] # b[i] /\ \A j \in (i + 1)..Len(a) : a[j] = b[j]
         IN  IF a[i] < b[i] THEN -1 ELSE 1

Zeros(k) == [i \in 1..k |-> 0]

\* a times limbs lo..hi of b.
RECURSIVE BnMulAt(_, _, _, _)
BnMulAt(a, b, lo, hi) ==
    IF lo = hi THEN BnMulAdd(a, b[lo], 0)
    ELSE LET mid == (lo + hi) \div 2
             L   == BnMulAt(a, b, lo, mid)
             H   == BnMulAt(a, b, mid + 1, hi)
         IN  BnAdd(L, IF H = <<>> THEN <<>> ELSE Zeros(mid + 1 - lo) \o H)

BnMul(a, b) ==
    IF a = <<>> \/ b = <<>> THEN <<>> ELSE BnMulAt(a, b, 1, Len(b))

BnShl(n, s) ==
    IF n = <<>> THEN <<>>
    ELSE Zeros(s \div LimbBits) \o BnMulAdd(n, 2^(s % LimbBits), 0)

BnShr(n, s) ==
    IF s \div LimbBits >= Len(n) THEN <<>>
    ELSE BnDivSmall(SubSeq(n, s \div LimbBits + 1, Len(n)), 2^(s % LimbBits)).q

\* Bit i (from 0) of n.
BnBit(n, i) == (Limb(n, i \div LimbBits + 1) \div 2^(i % LimbBits)) % 2

\* Whether any of the s low bits of n is set.
BnLowBits(n, s) ==
    \/ \E i \in 1..Min(s \div LimbBits, Len(n)) : n[i] # 0
    \/ Limb(n, s \div LimbBits + 1) % 2^(s % LimbBits) # 0

BnBitLen(n) ==
    IF n = <<>> THEN 0 ELSE (Len(n) - 1) * LimbBits + IntBitLen(n[Len(n)])

\* The number of trailing zero bits of n # 0.
RECURSIVE IntTrailingZeros(_)
IntTrailingZeros(i) == IF i % 2 = 1 THEN 0 ELSE 1 + IntTrailingZeros(i \div 2)

BnTrailingZeros(n) ==
    LET i == CHOOSE i \in 1..Len(n) : n[i] # 0 /\ \A j \in 1..(i - 1) : n[j] = 0
    IN  (i - 1) * LimbBits + IntTrailingZeros(n[i])

\* Binary long division of n by d over bits hi down to lo of n, entered
\* with quotient and remainder qr.
RECURSIVE BnLongDiv(_, _, _, _, _)
BnLongDiv(n, d, qr, lo, hi) ==
    IF lo > hi THEN qr
    ELSE IF lo = hi
    THEN LET r2 == BnMulAdd(qr.r, 2, BnBit(n, lo))
         IN  IF BnCmp(r2, d) >= 0
             THEN [q |-> BnMulAdd(qr.q, 2, 1), r |-> BnSub(r2, d)]
             ELSE [q |-> BnMulAdd(qr.q, 2, 0), r |-> r2]
    ELSE LET mid == (lo + hi) \div 2
             up  == BnLongDiv(n, d, qr, mid + 1, hi)
         IN  After(up, BnLongDiv(n, d, up, lo, mid))

\* Quotient and remainder of n by d > 0.
BnDivMod(n, d) ==
    IF Len(d) = 1
    THEN LET s == BnDivSmall(n, d[1]) IN [q |-> s.q, r |-> BnFromInt(s.r)]
    ELSE BnLongDiv(n, d, [q |-> <<>>, r |-> <<>>], 0, BnBitLen(n) - 1)

(***************************************************************************)
(* f64: IEEE 754 binary64.  A number is (-1)^s * m * 2^e with m < 2^53 and *)
(* EMin <= e <= EMax; m >= 2^52 unless e = EMin (subnormals and zero).      *)
(***************************************************************************)
MantBits == 53
EMin == -1074
EMax == 971

NaN == [k |-> "nan", s |-> 0, m |-> <<>>, e |-> 0]
Inf(s) == [k |-> "inf", s |-> s, m |-> <<>>, e |-> 0]
Zero(s) == [k |-> "num", s |-> s, m |-> <<>>, e |-> EMin]
Num(s, m, e) == [k |-> "num", s |-> s, m |-> m, e |-> e]

IsNaN(a) == a.k = "nan"
IsZero(a) == a.k = "num" /\ a.m = <<>>
Xor(s, t) == IF s = t THEN 0 ELSE 1

\* q or q + 1: round to nearest, ties to even, where half is the first bit
\* cut off q and low whether anything follows it.
RoundHalfEven(q, half, low) ==
    IF half /\ (low \/ BnBit(q, 0) = 1) THEN BnMulAdd(q, 1, 1) ELSE q

\* The number of mantissa m and exponent e; a mantissa that rounding
\* carried to MantBits + 1 bits is halved, and past EMax is infinity.
Pack(s, m, e) ==
    IF BnBitLen(m) > MantBits
    THEN (IF e + 1 > EMax THEN Inf(s) ELSE Num(s, BnShr(m, 1), e + 1))
    ELSE (IF e > EMax THEN Inf(s) ELSE Num(s, m, e))

\* (-1)^s * (n + f) * 2^e rounded to the exponent et.
RoundAt(s, n, e, st, et) ==
    IF et <= e THEN Pack(s, BnShl(n, e - et), et)
    ELSE Pack(s, RoundHalfEven(BnShr(n, et - e), BnBit(n, et - e - 1) = 1,
                               st \/ BnLowBits(n, et - e - 1)), et)

\* The f64 nearest to (-1)^s * (n + f) * 2^e, ties to even, where
\* 0 < f < 1 when st (sticky) and f = 0 otherwise.  With st the caller
\* gives an n of at least MantBits + 2 bits.
RoundPack(s, n, e, st) ==
    IF n = <<>> /\ ~st THEN Zero(s)
    ELSE RoundAt(s, n, e, st, Max(e + BnBitLen(n) - MantBits, EMin))

FNeg(a) == IF IsNaN(a) THEN NaN ELSE [a EXCEPT !.s = 1 - a.s]
FAbs(a) == IF IsNaN(a) THEN NaN ELSE [a EXCEPT !.s = 0]

\* The sum of two non-zero numbers, hi of the larger exponent: exact, then
\* rounded.  An operand more than AlignMax bits below the other only
\* decides the direction of rounding (it becomes the sticky part).
AlignMax == 2^6

AddFar(hi, lo) ==
    RoundPack(hi.s,
              IF hi.s = lo.s THEN BnShl(hi.m, 3) ELSE BnSub(BnShl(hi.m, 3), <<1>>),
              hi.e - 3, TRUE)

\* H and L are the mantissas at the common exponent e.
AddNear(hs, H, ls, L, e) ==
    IF hs = ls THEN RoundPack(hs, BnAdd(H, L), e, FALSE)
    ELSE IF BnCmp(H, L) = 0 THEN Zero(0)
    ELSE IF BnCmp(H, L) > 0 THEN RoundPack(hs, BnSub(H, L), e, FALSE)
    ELSE RoundPack(ls, BnSub(L, H), e, FALSE)

AddAligned(hi, lo) ==
    IF hi.e - lo.e > AlignMax THEN AddFar(hi, lo)
    ELSE AddNear(hi.s, BnShl(hi.m, hi.e - lo.e), lo.s, lo.m, lo.e)

AddNum(a, b) ==
    AddAligned(IF a.e >= b.e THEN a ELSE b, IF a.e >= b.e THEN b ELSE a)

FAdd(a, b) ==
    IF IsNaN(a) \/ IsNaN(b) THEN NaN
    ELSE IF a.k = "inf" THEN (IF b.k = "inf" /\ b.s # a.s THEN NaN ELSE a)
    ELSE IF b.k = "inf" THEN b
    ELSE IF IsZero(a) /\ IsZero(b) THEN Zero(IF a.s = b.s THEN a.s ELSE 0)
    ELSE IF IsZero(a) THEN b
    ELSE IF IsZero(b) THEN a
    ELSE AddNum(a, b)

FSub(a, b) == FAdd(a, FNeg(b))

FMul(a, b) ==
    IF IsNaN(a) \/ IsNaN(b) THEN NaN
    ELSE IF a.k = "inf" \/ b.k = "inf"
         THEN (IF IsZero(a) \/ IsZero(b) THEN NaN ELSE Inf(Xor(a.s, b.s)))
    ELSE IF IsZero(a) \/ IsZero(b) THEN Zero(Xor(a.s, b.s))
    ELSE RoundPack(Xor(a.s, b.s), BnMul(a.m, b.m), a.e + b.e, FALSE)

\* The quotient of two non-zero numbers: the dividend a.m is scaled up by
\* sh bits, until the integer quotient by D has MantBits + 2 bits or more,
\* and the remainder is the sticky part.
DivScaled(s, qr, e) == RoundPack(s, qr.q, e, qr.r # <<>>)

DivNum(a, b) ==
    LET sh == Max(0, MantBits + 3 + BnBitLen(b.m) - BnBitLen(a.m))
    IN  DivScaled(Xor(a.s, b.s), BnDivMod(BnShl(a.m, sh), b.m), a.e - sh - b.e)

FDiv(a, b) ==
    IF IsNaN(a) \/ IsNaN(b) THEN NaN
    ELSE IF a.k = "inf" THEN (IF b.k = "inf" THEN NaN ELSE Inf(Xor(a.s, b.s)))
    ELSE IF b.k = "inf" THEN Zero(Xor(a.s, b.s))
    ELSE IF IsZero(b) THEN (IF IsZero(a) THEN NaN ELSE Inf(Xor(a.s, b.s)))
    ELSE IF IsZero(a) THEN Zero(Xor(a.s, b.s))
    ELSE DivNum(a, b)

\* Comparison of magnitudes of two non-NaN values: -1, 0, 1.
MagCmp(a, b) ==
    IF a.k = "inf" THEN (IF b.k = "inf" THEN 0 ELSE 1)
    ELSE IF b.k = "inf" THEN -1
    ELSE IF a.e < b.e THEN -1
    ELSE IF a.e > b.e THEN 1
    ELSE BnCmp(a.m, b.m)

\* Comparison of two non-NaN values; -0.0 equals 0.0.
FCmp(a, b) ==
    IF IsZero(a) /\ IsZero(b) THEN 0
    ELSE IF a.s # b.s THEN (IF a.s = 1 THEN -1 ELSE 1)
    ELSE IF a.s = 0 THEN MagCmp(a, b)
    ELSE -MagCmp(a, b)

\* Rust's <, >=, == on f64: every comparison with NaN is false.
FLt(a, b) == ~IsNaN(a) /\ ~IsNaN(b) /\ FCmp(a, b) < 0
FLe(a, b) == ~IsNaN(a) /\ ~IsNaN(b) /\ FCmp(a, b) <= 0
FGe(a, b) == ~IsNaN(a) /\ ~IsNaN(b) /\ FCmp(a, b) >= 0
FEq(a, b) == ~IsNaN(a) /\ ~IsNaN(b) /\ FCmp(a, b) = 0

(***************************************************************************)
(* Text.  A string is a sequence of characters, each a one character       *)
(* string; "ESC" stands for the escape character and "deg" for the degree  *)
(* sign.                                                                   *)
(***************************************************************************)
Digits == <<"0", "1", "2", "3", "4", "5", "6", "7", "8", "9">>
UpperLetters == <<"A", "B", "C", "D", "E", "F", "G", "H", "I", "J", "K", "L", "M",
                  "N", "O", "P", "Q", "R", "S", "T", "U", "V", "W", "X", "Y", "Z">>
LowerLetters == <<"a", "b", "c", "d", "e", "f", "g", "h", "i", "j", "k", "l", "m",
                  "n", "o", "p", "q", "r", "s", "t", "u", "v", "w", "x", "y", "z">>

IsDigit(c) == \E i \in 1..10 : Digits[i] = c
DigitVal(c) == (CHOOSE i \in 1..10 : Digits[i] = c) - 1
DigitChar(d) == Digits[d + 1]

ToLowerChar(c) ==
    IF \E i \in 1..26 : UpperLetters[i] = c
    THEN LowerLetters[CHOOSE i \in 1..26 : UpperLetters[i] = c]
    ELSE c

ToLower(t) == [i \in 1..Len(t) |-> ToLowerChar(t[i])]

\* Whether sub occurs in text as a contiguous run (str::contains).
Contains(text, sub) ==
    \E i \in 0..(Len(text) - Len(sub)) :
        \A j \in 1..Len(sub) : text[i + j] = sub[j]

Drop(t, k) == SubSeq(t, k + 1, Len(t))

\* The length of the longest run of digits of t from position i on.
DigitRun(t, i) ==
    CHOOSE k \in 0..(Len(t) + 1 - i) :
        /\ \A j \in i..(i + k - 1) : IsDigit(t[j])
        /\ (i + k > Len(t) \/ ~IsDigit(t[i + k]))

\* n * 10^k.
RECURSIVE BnMulPow10(_, _)
BnMulPow10(n, k) ==
    IF k = 0 THEN n
    ELSE IF k = 1 THEN BnMulAdd(n, 10, 0)
    ELSE LET h == BnMulPow10(n, k \div 2)
         IN  After(h, BnMulPow10(h, k - k \div 2))

\* floor(n / 10^k), and whether anything was cut off.
RECURSIVE BnDivPow10(_, _)
BnDivPow10(n, k) ==
    IF k = 0 THEN [q |-> n, st |-> FALSE]
    ELSE IF k = 1
    THEN LET d == BnDivSmall(n, 10) IN [q |-> d.q, st |-> d.r # 0]
    ELSE LET A == BnDivPow10(n, k \div 2)
             B == BnDivPow10(A.q, k - k \div 2)
         IN  After(A.q, [q |-> B.q, st |-> A.st \/ B.st])

\* The number that the decimal digits lo..hi of t write.
RECURSIVE BnFromDigitsAt(_, _, _)
BnFromDigitsAt(t, lo, hi) ==
    IF lo > hi THEN <<>>
    ELSE IF lo = hi THEN BnFromInt(DigitVal(t[lo]))
    ELSE BnAdd(BnMulPow10(BnFromDigitsAt(t, lo, (lo + hi) \div 2), hi - (lo + hi) \div 2),
               BnFromDigitsAt(t, (lo + hi) \div 2 + 1, hi))

BnFromDigits(t) == BnFromDigitsAt(t, 1, Len(t))

\* The k low decimal digits of n, most significant first, and the rest of n.
RECURSIVE BnLowDigits(_, _)
BnLowDigits(n, k) ==
    IF k = 0 THEN [q |-> n, ds |-> <<>>]
    ELSE IF k = 1
    THEN LET d == BnDivSmall(n, 10) IN [q |-> d.q, ds |-> <<DigitChar(d.r)>>]
    ELSE LET L == BnLowDigits(n, k \div 2)
             H == BnLowDigits(L.q, k - k \div 2)
         IN  After(L.q, [q |-> H.q, ds |-> H.ds \o L.ds])

StripZeros(ds) ==
    LET nz == CHOOSE i \in 1..(Len(ds) + 1) :
                  (i = Len(ds) + 1 \/ ds[i] # "0") /\ \A j \in 1..(i - 1) : ds[j] = "0"
    IN  SubSeq(ds, nz, Len(ds))

StripTrailingZeros(ds) ==
    LET last == CHOOSE i \in 0..Len(ds) :
                    (i = 0 \/ ds[i] # "0") /\ \A j \in (i + 1)..Len(ds) : ds[j] = "0"
    IN  SubSeq(ds, 1, last)

\* The decimal digits of n, most significant first (none for zero).  A
\* number of b bits has at most b * 30103 / 100000 + 1 digits.
BnToDigits(n) ==
    StripZeros(BnLowDigits(n, (BnBitLen(n) * 30103) \div 100000 + 1).ds)

(***************************************************************************)
(* Decimal to f64: the f64 nearest to (-1)^s * d * 10^x (str::parse::<f64>  *)
(* rounds correctly).  For x < 0, d is scaled up by sh bits so that the    *)
(* integer quotient by 10^-x has MantBits + 2 bits or more.                *)
(***************************************************************************)
DecScaled(s, qs, e) == RoundPack(s, qs.q, e, qs.st)

DecToF(s, d, x) ==
    IF d = <<>> THEN Zero(s)
    ELSE IF x >= 0 THEN RoundPack(s, BnMulPow10(d, x), 0, FALSE)
    ELSE LET sh == Max(0, MantBits + 3 + 4 * (-x) - BnBitLen(d))
         IN  DecScaled(s, BnDivPow10(BnShl(d, sh), -x), -sh)

\* n * 2^e, rounded down.
Scale2(n, e) == IF e >= 0 THEN BnShl(n, e) ELSE BnShr(n, -e)

\* floor(m * 2^e / 10^p).
FloorScaled(m, e, p) ==
    IF p > 0 THEN BnDivPow10(Scale2(m, e), p).q
    ELSE Scale2(BnMulPow10(m, -p), e)

(***************************************************************************)
(* str::parse::<f64>, the value parser of the positional argument          *)
(* (lib.rs:106-107).  It accepts an optional sign, then "inf", "infinity"  *)
(* or "nan" in any case, or digits with an optional point and an optional  *)
(* exponent, and nothing else; [ok |-> FALSE] is a parse error.            *)
(***************************************************************************)
NoF64 == [ok |-> FALSE, v |-> NaN]

\* The value of the digits ds times 10^x; beyond the range of f64 the
\* result is infinity or zero whatever the digits.
Decimal(s, ds, x) ==
    IF ds = <<>> THEN [ok |-> TRUE, v |-> Zero(s)]
    ELSE IF x + Len(ds) >= 310 THEN [ok |-> TRUE, v |-> Inf(s)]
    ELSE IF x + Len(ds) <= -324 THEN [ok |-> TRUE, v |-> Zero(s)]
    ELSE [ok |-> TRUE, v |-> DecToF(s, BnFromDigits(ds), x)]

\* The value of at most five digits.
ExpHead(ds) ==
    Limb(BnFromDigits(SubSeq(ds, 1, Min(5, Len(ds)))), 1)
        + Base * Limb(BnFromDigits(SubSeq(ds, 1, Min(5, Len(ds)))), 2)

\* The value of the digits of an exponent as from_str accumulates it: a
\* digit is taken in, exponent = 10 * exponent + digit, only while the
\* exponent is below 0x10000, and the digits after that are dropped.  Behind
\* the leading zeros five digits are always taken in, a sixth when the five
\* are below 0x10000, and none after the sixth.
ExpValue(ds) ==
    IF Len(StripZeros(ds)) >= 6 /\ ExpHead(StripZeros(ds)) < 65536
    THEN 10 * ExpHead(StripZeros(ds)) + DigitVal(StripZeros(ds)[6])
    ELSE ExpHead(StripZeros(ds))

\* The exponent's digits run from pd to the end of body.
ParseExpDigits(s, body, ds, nf, pd, neg) ==
    IF pd > Len(body) \/ DigitRun(body, pd) # Len(body) + 1 - pd THEN NoF64
    ELSE Decimal(s, ds, (IF neg THEN -1 ELSE 1)
                            * ExpValue(StripZeros(Drop(body, pd - 1))) - nf)

\* ds are the digits before and after the point, nf of them after it; what
\* follows them starts at pe.
ParseExponent(s, body, ds, nf, pe) ==
    IF pe = Len(body) + 1 THEN Decimal(s, StripZeros(ds), -nf)
    ELSE IF body[pe] \notin {"e", "E"} THEN NoF64
    ELSE IF pe + 1 <= Len(body) /\ body[pe + 1] \in {"+", "-"}
         THEN ParseExpDigits(s, body, StripZeros(ds), nf, pe + 2, body[pe + 1] = "-")
    ELSE ParseExpDigits(s, body, StripZeros(ds), nf, pe + 1, FALSE)

\* ni digits, then a point and nf digits when dot.
ParseFraction(s, body, ni, dot, nf) ==
    IF ni + nf = 0 THEN NoF64
    ELSE ParseExponent(s, body,
                       SubSeq(body, 1, ni) \o SubSeq(body, ni + 2, ni + 1 + nf),
                       nf, IF dot THEN ni + 2 + nf ELSE ni + 1)

ParsePoint(s, body, ni) ==
    IF ni < Len(body) /\ body[ni + 1] = "."
    THEN ParseFraction(s, body, ni, TRUE, DigitRun(body, ni + 2))
    ELSE ParseFraction(s, body, ni, FALSE, 0)

ParseNumber(s, body) == ParsePoint(s, body, DigitRun(body, 1))

ParseSigned(s, body) ==
    IF ToLower(body) \in {<<"i", "n", "f">>, <<"i", "n", "f", "i", "n", "i", "t", "y">>}
    THEN [ok |-> TRUE, v |-> Inf(s)]
    ELSE IF ToLower(body) = <<"n", "a", "n">> THEN [ok |-> TRUE, v |-> NaN]
    ELSE ParseNumber(s, body)

ParseF64(tok) ==
    IF tok # <<>> /\ tok[1] = "-" THEN ParseSigned(1, Drop(tok, 1))
    ELSE IF tok # <<>> /\ tok[1] = "+" THEN ParseSigned(0, Drop(tok, 1))
    ELSE ParseSigned(0, tok)

(***************************************************************************)
(* Formatting.  "{:.2}" writes the exact value rounded to two decimals,    *)
(* ties to even; "{}" writes the shortest decimal that parses back to the  *)
(* same f64, without an exponent.                                          *)
(***************************************************************************)
SignText(a) == IF a.s = 1 THEN <<"-">> ELSE <<>>

\* n * 2^e rounded to an integer, ties to even.
RoundInt(n, e) ==
    IF e >= 0 THEN BnShl(n, e)
    ELSE RoundHalfEven(BnShr(n, -e), BnBit(n, -e - 1) = 1, BnLowBits(n, -e - 1))

\* The value times 100, rounded to an integer.
Hundredths(m, e) == RoundInt(BnMulAdd(m, 100, 0), e)

PadLeft(ds, k) == [i \in 1..(k - Len(ds)) |-> "0"] \o ds

\* ds with a point before its last two digits.
PointTwo(ds) ==
    SubSeq(ds, 1, Len(ds) - 2) \o <<".">> \o SubSeq(ds, Len(ds) - 1, Len(ds))

FmtFixed2(a) ==
    IF a.k = "nan" THEN <<"N", "a", "N">>
    ELSE IF a.k = "inf" THEN SignText(a) \o <<"i", "n", "f">>
    ELSE SignText(a) \o PointTwo(PadLeft(BnToDigits(Hundredths(a.m, a.e)), 3))

\* floor(log10(m * 2^e)) for m # 0.
Log10Floor(m, e) ==
    LET k0 == ((BnBitLen(m) + e - 1) * 30103) \div 100000
    IN  IF FloorScaled(m, e, k0 + 1) # <<>> THEN k0 + 1 ELSE k0

\* The shortest decimal t * 10^p, of n digits or more, that reads back as
\* the f64 m * 2^e; k10 is floor(log10) of the value.  Of the two n digit
\* decimals around the value, t and t + 1, the nearer one is tried first;
\* upper tells that it is t + 1.
RECURSIVE Shortest(_, _, _, _)
ShortestTry(m, e, k10, n, near, far) ==
    IF DecToF(0, near, k10 - n + 1) = Num(0, m, e) THEN [t |-> near, p |-> k10 - n + 1]
    ELSE IF DecToF(0, far, k10 - n + 1) = Num(0, m, e) THEN [t |-> far, p |-> k10 - n + 1]
    ELSE Shortest(m, e, k10, n + 1)

ShortestOf(m, e, k10, n, t, upper) ==
    IF upper THEN ShortestTry(m, e, k10, n, BnMulAdd(t, 1, 1), t)
    ELSE ShortestTry(m, e, k10, n, t, BnMulAdd(t, 1, 1))

Shortest(m, e, k10, n) ==
    ShortestOf(m, e, k10, n, FloorScaled(m, e, k10 - n + 1),
               BnBit(FloorScaled(BnMulAdd(m, 2, 0), e, k10 - n + 1), 0) = 1)

\* The digits ds with the point after the first pt of them, zeros filled in.
PlacePoint(ds, pt) ==
    IF pt <= 0 THEN <<"0", ".">> \o [i \in 1..(-pt) |-> "0"] \o ds
    ELSE IF pt < Len(ds)
         THEN SubSeq(ds, 1, pt) \o <<".">> \o SubSeq(ds, pt + 1, Len(ds))
    ELSE ds \o [i \in 1..(pt - Len(ds)) |-> "0"]

\* all are the digits of t, written without an exponent.
Plain(all, p) == PlacePoint(StripTrailingZeros(all), Len(all) + p)

FmtShortest(sh) == Plain(BnToDigits(sh.t), sh.p)

FmtDisplay(a) ==
    IF a.k = "nan" THEN <<"N", "a", "N">>
    ELSE IF a.k = "inf" THEN SignText(a) \o <<"i", "n", "f">>
    ELSE IF a.m = <<>> THEN SignText(a) \o <<"0">>
    ELSE SignText(a) \o FmtShortest(Shortest(a.m, a.e, Log10Floor(a.m, a.e), 1))

(***************************************************************************)
(* src/src/utils.rs and enum Unit (lib.rs:47-95).                          *)
(***************************************************************************)
Lit(neg, digits, x) == DecToF(IF neg THEN 1 ELSE 0, BnFromDigits(digits), x)

ABS_ZERO_CELSIUS == Lit(TRUE, <<"2", "7", "3", "1", "5">>, -2)
ABS_ZERO_FAHRENHEIT == Lit(TRUE, <<"4", "5", "9", "6", "7">>, -2)
ABS_ZERO_KELVIN == Lit(FALSE, <<"0", "0">>, -1)

COLOR_GREEN == <<"ESC", "[", "3", "2", "m">>
COLOR_ERROR == <<"ESC", "[", "3", "1", "m">>
COLOR_INFO == <<"ESC", "[", "3", "6", "m">>
COLOR_RESET == <<"ESC", "[", "0", "m">>

Unit == {"C", "F", "K"}

F32 == Lit(FALSE, <<"3", "2", "0">>, -1)
F5 == Lit(FALSE, <<"5", "0">>, -1)
F9 == Lit(FALSE, <<"9", "0">>, -1)
F273_15 == Lit(FALSE, <<"2", "7", "3", "1", "5">>, -2)

absolute_zero(self) ==
    CASE self = "C" -> ABS_ZERO_CELSIUS
      [] self = "F" -> ABS_ZERO_FAHRENHEIT
      [] self = "K" -> ABS_ZERO_KELVIN

full_name(self) ==
    CASE self = "C" -> <<"C", "e", "l", "s", "i", "u", "s">>
      [] self = "F" -> <<"F", "a", "h", "r", "e", "n", "h", "e", "i", "t">>
      [] self = "K" -> <<"K", "e", "l", "v", "i", "n">>

\* to_celsius with the factors of the Fahrenheit formula exchanged.
to_celsius_swapped(self, value) ==
    CASE self = "C" -> value
      [] self = "F" -> FDiv(FMul(FSub(value, F32), F9), F5)
      [] self = "K" -> FSub(value, F273_15)

to_celsius(self, value) ==
    CASE self = "C" -> value
      [] self = "F" -> FDiv(FMul(FSub(value, F32), F5), F9)
      [] self = "K" -> FSub(value, F273_15)

\* from_celsius without the offset of the Fahrenheit scale.
from_celsius_no_offset(self, celsius) ==
    CASE self = "C" -> celsius
      [] self = "F" -> FDiv(FMul(celsius, F9), F5)
      [] self = "K" -> FAdd(celsius, F273_15)

from_celsius(self, celsius) ==
    CASE self = "C" -> celsius
      [] self = "F" -> FAdd(FDiv(FMul(celsius, F9), F5), F32)
      [] self = "K" -> FAdd(celsius, F273_15)

(***************************************************************************)
(* Args::run (lib.rs:126-153): the validation, the conversion through      *)
(* Celsius and the two format! strings.  `result` is the local of line     *)
(* 140; a failed run has none.                                             *)
(***************************************************************************)
NoResult == [k |-> "none"]

ErrorText(value, value_unit, min) ==
    <<"V", "a", "l", "u", "e", " ">> \o FmtDisplay(value) \o <<" ", "i", "s", " ", "b", "e", "l", "o", "w", " ", "a", "b", "s", "o", "l", "u", "t", "e", " ", "z", "e", "r", "o", " ", "f", "o", "r", " ">>
        \o full_name(value_unit) \o <<" ", "(">> \o FmtDisplay(min) \o <<")">>

\* OkText with "{}" in the place of "{:.2}".
OkTextUnrounded(value, value_unit, result, convert) ==
    COLOR_GREEN \o FmtDisplay(value) \o <<"deg">> \o full_name(value_unit)
        \o <<" ", "i", "s", " ">> \o FmtDisplay(result) \o <<"deg">>
        \o full_name(convert) \o COLOR_RESET

OkText(value, value_unit, result, convert) ==
    COLOR_GREEN \o FmtFixed2(value) \o <<"deg">> \o full_name(value_unit)
        \o <<" ", "i", "s", " ">> \o FmtFixed2(result) \o <<"deg">>
        \o full_name(convert) \o COLOR_RESET

\* run without the validation.
run_unchecked(self) ==
    LET result == from_celsius(self.convert, to_celsius(self.value_unit, self.value))
    IN  [ok |-> TRUE, result |-> result,
         text |-> OkText(self.value, self.value_unit, result, self.convert)]

\* run with "<=" in the place of "<".
run_exclusive(self) ==
    LET min == absolute_zero(self.value_unit)
    IN  IF FLe(self.value, min)
        THEN [ok |-> FALSE, result |-> NoResult,
              text |-> ErrorText(self.value, self.value_unit, min)]
        ELSE LET result == from_celsius(self.convert,
                                        to_celsius(self.value_unit, self.value))
             IN  [ok |-> TRUE, result |-> result,
                  text |-> OkText(self.value, self.value_unit, result, self.convert)]

run(self) ==
    LET min == absolute_zero(self.value_unit)
    IN  IF FLt(self.value, min)
        THEN [ok |-> FALSE, result |-> NoResult,
              text |-> ErrorText(self.value, self.value_unit, min)]
        ELSE LET result == from_celsius(self.convert,
                                        to_celsius(self.value_unit, self.value))
             IN  [ok |-> TRUE, result |-> result,
                  text |-> OkText(self.value, self.value_unit, result, self.convert)]

(***************************************************************************)
(* Args::try_parse (clap's derive on struct Args, lib.rs:98-122), over the *)
(* command line after the program name.  Tokens are read left to right:    *)
(*   --help / -h, --version / -V   end the parse at once;                  *)
(*   --unit / -u, --convert / -c   take one value, attached ("--unit=c",   *)
(*       "-uc") or the next token; the value is matched against the        *)
(*       variant names and aliases ignoring case; a second use is an error;*)
(*   "--" makes every later token positional;                              *)
(*   any other token is the positional value, parsed as an f64; because of *)
(*       allow_hyphen_values a token starting with "-" is the value when   *)
(*       the value is still missing and the token is not made of known     *)
(*       short flags only.                                                 *)
(* A missing value is an error at the end; the defaults "f" and "c" go     *)
(* through the same value parser.                                          *)
(***************************************************************************)
NoArgs == [k |-> "none"]
NoUnit == "none"
NoField == "none"

KnownShort == {"u", "c", "h", "V"}
LongHelp == <<"h", "e", "l", "p">>
LongVersion == <<"v", "e", "r", "s", "i", "o", "n">>
LongUnit == <<"u", "n", "i", "t">>
LongConvert == <<"c", "o", "n", "v", "e", "r", "t">>

ParseUnit(tok) ==
    LET low == ToLower(tok)
    IN  IF low \in {<<"c">>, <<"c", "e", "l", "s", "i", "u", "s">>} THEN "C"
        ELSE IF low \in {<<"f">>, <<"f", "a", "h", "r", "e", "n", "h", "e", "i", "t">>} THEN "F"
        ELSE IF low \in {<<"k">>, <<"k", "e", "l", "v", "i", "n">>} THEN "K"
        ELSE NoUnit

IsEscape(tok) == tok = <<"-", "-">>
IsLong(tok) == Len(tok) >= 3 /\ tok[1] = "-" /\ tok[2] = "-"
IsShort(tok) == Len(tok) >= 2 /\ tok[1] = "-" /\ tok[2] # "-"
AllKnownShort(tok) == \A j \in 2..Len(tok) : tok[j] \in KnownShort

\* The name of a long flag: up to "=" when there is one.
EqPos(tok) ==
    CHOOSE j \in 1..(Len(tok) + 1) :
        (j = Len(tok) + 1 \/ tok[j] = "=") /\ \A h \in 1..(j - 1) : tok[h] # "="
LongName(tok) == SubSeq(tok, 3, EqPos(tok) - 1)

\* Whether the token is read as a flag when st is what was parsed so far.
IsFlag(tok, st) ==
    \/ IsEscape(tok)
    \/ IsLong(tok) /\ LongName(tok) \in {LongHelp, LongVersion, LongUnit, LongConvert}
    \/ IsShort(tok) /\ (AllKnownShort(tok) \/ st.value.ok)

\* The parser's state: kind is "more" while tokens are read, then "help",
\* "version" or "error"; pending is the option whose value the next token is.
ParseStart ==
    [kind |-> "more", value |-> NoF64, value_unit |-> NoUnit, convert |-> NoUnit,
     pending |-> NoField, escaped |-> FALSE]

Fail(st) == [st EXCEPT !.kind = "error"]

\* The positional value.
WithValue(st, parsed) ==
    IF st.value.ok \/ ~parsed.ok THEN Fail(st) ELSE [st EXCEPT !.value = parsed]

Positional(st, tok) == WithValue(st, ParseF64(tok))

\* The value text of the option field.
OptionValue(st, field, text) ==
    IF st[field] # NoUnit \/ ParseUnit(text) = NoUnit THEN Fail(st)
    ELSE [st EXCEPT ![field] = ParseUnit(text), !.pending = NoField]

\* The option field, with its value attached or in the next token.
Option(st, field, attached, text) ==
    IF attached THEN OptionValue(st, field, text)
    ELSE [st EXCEPT !.pending = field]

LongFlag(st, tok) ==
    LET name == LongName(tok)
        eq   == EqPos(tok) <= Len(tok)
        text == Drop(tok, EqPos(tok))
    IN  IF name = LongHelp /\ ~eq THEN [st EXCEPT !.kind = "help"]
        ELSE IF name = LongVersion /\ ~eq THEN [st EXCEPT !.kind = "version"]
        ELSE IF name = LongUnit THEN Option(st, "value_unit", eq, text)
        ELSE IF name = LongConvert THEN Option(st, "convert", eq, text)
        ELSE Fail(st)

ShortFlag(st, tok) ==
    LET c    == tok[2]
        rest == Drop(tok, 2)
        text == IF rest # <<>> /\ rest[1] = "=" THEN Drop(rest, 1) ELSE rest
    IN  IF c = "h" THEN [st EXCEPT !.kind = "help"]
        ELSE IF c = "V" THEN [st EXCEPT !.kind = "version"]
        ELSE IF c = "u" THEN Option(st, "value_unit", rest # <<>>, text)
        ELSE IF c = "c" THEN Option(st, "convert", rest # <<>>, text)
        ELSE Fail(st)

ParseToken(st, tok) ==
    IF st.kind # "more" THEN st
    ELSE IF st.pending # NoField
         THEN (IF IsFlag(tok, st) THEN Fail(st) ELSE OptionValue(st, st.pending, tok))
    ELSE IF ~st.escaped /\ IsEscape(tok) THEN [st EXCEPT !.escaped = TRUE]
    ELSE IF ~st.escaped /\ IsLong(tok) THEN LongFlag(st, tok)
    ELSE IF ~st.escaped /\ IsShort(tok) /\ (AllKnownShort(tok) \/ st.value.ok)
         THEN ShortFlag(st, tok)
    ELSE Positional(st, tok)

\* ParseEnd with the two defaults exchanged.
ParseEndSwapped(st) ==
    IF st.kind \in {"help", "version", "error"} THEN [kind |-> st.kind, args |-> NoArgs]
    ELSE IF st.pending # NoField \/ ~st.value.ok THEN [kind |-> "error", args |-> NoArgs]
    ELSE [kind |-> "ok",
          args |-> [value      |-> st.value.v,
                    value_unit |-> IF st.value_unit = NoUnit
                                   THEN ParseUnit(<<"c">>) ELSE st.value_unit,
                    convert    |-> IF st.convert = NoUnit
                                   THEN ParseUnit(<<"f">>) ELSE st.convert]]

\* The end of the command line: an option without its value and a missing
\* value are errors; a unit that was not given is parsed from its default.
ParseEnd(st) ==
    IF st.kind \in {"help", "version", "error"} THEN [kind |-> st.kind, args |-> NoArgs]
    ELSE IF st.pending # NoField \/ ~st.value.ok THEN [kind |-> "error", args |-> NoArgs]
    ELSE [kind |-> "ok",
          args |-> [value      |-> st.value.v,
                    value_unit |-> IF st.value_unit = NoUnit
                                   THEN ParseUnit(<<"f">>) ELSE st.value_unit,
                    convert    |-> IF st.convert = NoUnit
                                   THEN ParseUnit(<<"c">>) ELSE st.convert]]

\* The tokens from the i-th on.
RECURSIVE ParseFrom(_, _, _)
ParseFrom(argv, i, st) ==
    IF i > Len(argv) THEN ParseEnd(st)
    ELSE ParseFrom(argv, i + 1, ParseToken(st, argv[i]))

try_parse(argv) == ParseFrom(argv, 1, ParseStart)

(***************************************************************************)
(* The command lines.  Every value is tried with every pair of units; the  *)
(* other shapes of a command line (defaults, spellings of the flags and of *)
(* the units, help and version, malformed ones) with a few values.         *)
(***************************************************************************)
MaxGrid == 20
GridStep == 2297

\* The token that writes h hundredths: "-22.97" for -2297.
NatDigits(i) == IF i = 0 THEN <<"0">> ELSE BnToDigits(BnFromInt(i))
HundredthsToken(h) ==
    LET a == IF h < 0 THEN -h ELSE h
    IN  (IF h < 0 THEN <<"-">> ELSE <<>>) \o NatDigits(a \div 100) \o <<".">>
            \o PadLeft(NatDigits(a % 100), 2)

GridTokens == {HundredthsToken(g * GridStep) : g \in (-MaxGrid)..MaxGrid}

SpecialTokens ==
    {<<"-", "2", "7", "3", ".", "1", "5">>,
     <<"-", "2", "7", "3", ".", "1", "6">>,
     <<"-", "2", "7", "4", ".", "1", "5">>,
     <<"-", "4", "5", "9", ".", "6", "7">>,
     <<"-", "4", "5", "9", ".", "6", "8">>,
     <<"-", "4", "6", "0", ".", "6", "7">>,
     <<"0">>,
     <<"-", "0">>,
     <<"-", "0", ".", "0", "1">>,
     <<"-", "1">>,
     <<"3", "2">>,
     <<"2", "1", "2">>,
     <<"-", "4", "0">>,
     <<"1", "0", "0">>,
     <<"2", "7", "3", ".", "1", "5">>,
     <<"9", "8", ".", "6">>,
     <<"0", ".", "1", "2", "5">>,
     <<"1", "0", "0", "0", "0", "0">>,
     <<"1", "0", "0", "0", "0", "0", ".", "0", "1">>,
     <<"9", "8", "1", "0", "3", "3", ".", "5", "7", "9", "1", "4", "1", "3", "5", "5", "1">>,
     <<"8", "0", "6", "0", "5", "5", "7", ".", "4", "0", "5", "0", "4", "3", "4", "0", "1">>,
     <<"1", "0", "0", "0", "0", "0", "0", "0", "0", "0", "0", "0", "0", "0", "0", "0", "2", "0">>,
     <<"i", "n", "f">>,
     <<"-", "i", "n", "f">>,
     <<"N", "a", "N">>,
     <<"1", ".", "7", "9", "7", "6", "9", "3", "1", "3", "4", "8", "6", "2", "3", "1", "5", "7", "e", "3", "0", "8">>,
     <<"-", "1", "e", "3", "0">>,
     <<"5", "e", "-", "3", "2", "4">>,
     <<"+", "7">>,
     <<"1", "e", "3">>,
     <<".", "5">>}

BadValueTokens ==
    {<<"a", "b", "c">>,
     <<>>,
     <<"-">>,
     <<"1", "e">>,
     <<"1", ".", "5", "x">>,
     <<"-", "-", "5">>,
     <<"1", ".", ".", "2">>,
     <<"-", "u", "5">>}

ValueTokens == GridTokens \cup SpecialTokens

FewTokens == {<<"2", "5">>, <<"-", "3", "0", "0">>, <<"-", "0", ".", "5">>}

UnitCodes == {<<"c">>, <<"f">>, <<"k">>}
UnitSpellings ==
    {<<"C">>,
     <<"C", "e", "l", "s", "i", "u", "s">>,
     <<"K", "E", "L", "V", "I", "N">>,
     <<"F", "a", "h", "r", "e", "n", "h", "e", "i", "t">>,
     <<"k", "e", "l", "v", "i", "n">>,
     <<"f">>}
BadUnitTokens ==
    {<<"x">>,
     <<"r", "a", "n", "k", "i", "n", "e">>,
     <<>>}

ShortU == <<"-", "u">>
ShortC == <<"-", "c">>
ShortH == <<"-", "h">>
ShortV == <<"-", "V">>
DashUnit == <<"-", "-">> \o LongUnit
DashConvert == <<"-", "-">> \o LongConvert
DashHelp == <<"-", "-">> \o LongHelp
DashVersion == <<"-", "-">> \o LongVersion

ArgvSet ==
    {<<v, ShortU, u, ShortC, c>> : v \in ValueTokens, u \in UnitCodes, c \in UnitCodes}
    \cup {<<v>> : v \in ValueTokens \cup BadValueTokens}
    \cup {<<ShortU, u, v>> : u \in UnitCodes \cup UnitSpellings \cup BadUnitTokens, v \in FewTokens}
    \cup {<<v, DashConvert, c>> : c \in UnitCodes \cup UnitSpellings \cup BadUnitTokens, v \in FewTokens}
    \cup {<<DashUnit \o <<"=">> \o u, v, ShortC \o c>> : u \in UnitSpellings, c \in UnitCodes, v \in FewTokens}
    \cup {<<DashConvert, c, DashUnit, u, v>> : u \in UnitCodes, c \in UnitSpellings, v \in FewTokens}
    \cup {<<f>> : f \in {ShortH, DashHelp, ShortV, DashVersion}}
    \cup {<<v, f>> : v \in FewTokens, f \in {ShortH, DashHelp, ShortV, DashVersion}}
    \cup {<<f, v>> : v \in FewTokens \cup BadValueTokens, f \in {ShortH, DashVersion}}
    \cup {<<v, w>> : v \in FewTokens, w \in FewTokens}
    \cup {<<ShortU, u>> : u \in UnitCodes}
    \cup {<<v, f>> : v \in FewTokens, f \in {ShortU, ShortC, DashUnit, DashConvert}}
    \cup {<<v, ShortU, u, DashUnit, w>> : v \in FewTokens, u \in UnitCodes, w \in UnitCodes}
    \cup {<<v, <<"-", "-", "b", "o", "g", "u", "s">>>> : v \in FewTokens}
    \cup {<<<<"-", "-">>, v>> : v \in FewTokens}
    \cup {<<>>}

(***************************************************************************)
(* main (main.rs:9-28).                                                    *)
(***************************************************************************)
VARIABLES
    argv,       \* the command line after the program name
    pc,         \* "start", "run" (parsed), "match" (run returned), "exit"
    args,       \* the parsed Args
    ret,        \* what Args::run returned
    run_calls,  \* how many times Args::run was called
    stdout,     \* what was printed with println!
    stderr,     \* what was printed with eprintln!
    exit_code   \* the exit status, -1 while the process runs

vars == <<argv, pc, args, ret, run_calls, stdout, stderr, exit_code>>

NoRet == [k |-> "none"]

\* What clap renders for a help or version request and for a usage error.
InfoText(kind) == IF kind = "help" THEN <<"HELP">> ELSE <<"VERSION">>
UsageText == <<"USAGE">>

Init ==
    /\ argv \in ArgvSet
    /\ pc = "start"
    /\ args = NoArgs
    /\ ret = NoRet
    /\ run_calls = 0
    /\ stdout = <<>>
    /\ stderr = <<>>
    /\ exit_code = -1

\* main.rs:10-14: DisplayHelp or DisplayVersion.
TryParseInfo ==
    /\ pc = "start"
    /\ try_parse(argv).kind \in {"help", "version"}
    /\ stdout' = <<"\n">> \o COLOR_INFO \o InfoText(try_parse(argv).kind)
                     \o COLOR_RESET \o <<"\n">>
    /\ exit_code' = 0
    /\ pc' = "exit"
    /\ UNCHANGED <<argv, args, ret, run_calls, stderr>>

\* main.rs:15-18: any other error of the parser.
TryParseErr ==
    /\ pc = "start"
    /\ try_parse(argv).kind = "error"
    /\ stderr' = <<"\n">> \o COLOR_ERROR \o UsageText \o COLOR_RESET \o <<"\n">>
    /\ exit_code' = 1
    /\ pc' = "exit"
    /\ UNCHANGED <<argv, args, ret, run_calls, stdout>>

\* main.rs:10: the parse succeeded.
TryParseOk ==
    /\ pc = "start"
    /\ try_parse(argv).kind = "ok"
    /\ args' = try_parse(argv).args
    /\ pc' = "run"
    /\ UNCHANGED <<argv, ret, run_calls, stdout, stderr, exit_code>>

\* main.rs:21: args.run().
Run ==
    /\ pc = "run"
    /\ ret' = run(args)
    /\ run_calls' = run_calls + 1
    /\ pc' = "match"
    /\ UNCHANGED <<argv, args, stdout, stderr, exit_code>>

\* main.rs:22: Ok(output); main returns.
PrintOk ==
    /\ pc = "match"
    /\ ret.ok
    /\ stdout' = <<"\n">> \o ret.text \o <<"\n">>
    /\ exit_code' = 0
    /\ pc' = "exit"
    /\ UNCHANGED <<argv, args, ret, run_calls, stderr>>

\* PrintErr printing on standard output and leaving with status 0.
PrintErrToStdout ==
    /\ pc = "match"
    /\ ~ret.ok
    /\ stdout' = <<"\n">> \o COLOR_ERROR \o ret.text \o COLOR_RESET \o <<"\n">>
    /\ exit_code' = 0
    /\ pc' = "exit"
    /\ UNCHANGED <<argv, args, ret, run_calls, stderr>>

\* main.rs:23-26: Err(error).
PrintErr ==
    /\ pc = "match"
    /\ ~ret.ok
    /\ stderr' = <<"\n">> \o COLOR_ERROR \o ret.text \o COLOR_RESET \o <<"\n">>
    /\ exit_code' = 1
    /\ pc' = "exit"
    /\ UNCHANGED <<argv, args, ret, run_calls, stdout>>

Next ==
    \/ TryParseInfo
    \/ TryParseErr
    \/ TryParseOk
    \/ Run
    \/ PrintOk
    \/ PrintErr

Spec == Init /\ [][Next]_vars

(***************************************************************************)
(* The tests' tolerance (lib.rs:163-172) and the literals of the claims.   *)
(***************************************************************************)
EPSILON == Lit(FALSE, <<"1">>, -10)
assert_approx_eq(a, b) == FLt(FAbs(FSub(a, b)), EPSILON)

\* The claims' own statement of the thresholds, names and formulas.
SpecAbsZero(u) ==
    CASE u = "C" -> Lit(TRUE, <<"2", "7", "3", "1", "5">>, -2)
      [] u = "F" -> Lit(TRUE, <<"4", "5", "9", "6", "7">>, -2)
      [] u = "K" -> Lit(FALSE, <<"0">>, 0)

SpecThresholdText(u) ==
    CASE u = "C" -> <<"-", "2", "7", "3", ".", "1", "5">>
      [] u = "F" -> <<"-", "4", "5", "9", ".", "6", "7">>
      [] u = "K" -> <<"0">>

SpecName(u) ==
    CASE u = "C" -> <<"C", "e", "l", "s", "i", "u", "s">>
      [] u = "F" -> <<"F", "a", "h", "r", "e", "n", "h", "e", "i", "t">>
      [] u = "K" -> <<"K", "e", "l", "v", "i", "n">>

Whole(neg, digits) == Lit(neg, digits, 0)

SpecToCelsius(u, v) ==
    CASE u = "C" -> v
      [] u = "F" -> FDiv(FMul(FSub(v, Whole(FALSE, <<"3", "2">>)), Whole(FALSE, <<"5">>)),
                         Whole(FALSE, <<"9">>))
      [] u = "K" -> FSub(v, Lit(FALSE, <<"2", "7", "3", "1", "5">>, -2))

SpecFromCelsius(u, c) ==
    CASE u = "C" -> c
      [] u = "F" -> FAdd(FDiv(FMul(c, Whole(FALSE, <<"9">>)), Whole(FALSE, <<"5">>)),
                         Whole(FALSE, <<"3", "2">>))
      [] u = "K" -> FAdd(c, Lit(FALSE, <<"2", "7", "3", "1", "5">>, -2))

\* Args::run was called, and returned ret.
Ran == run_calls = 1 /\ pc \in {"match", "exit"}
Value == args.value
Source == args.value_unit
Target == args.convert

\* A token that writes a number the way "{}" does: digits and a point only,
\* no zero at the end of a fraction.
IsPlain(tok) ==
    /\ tok # <<>>
    /\ \A i \in 1..Len(tok) : IsDigit(tok[i]) \/ tok[i] = "." \/ (i = 1 /\ tok[i] = "-")
    /\ IsDigit(tok[Len(tok)])
    /\ (\E i \in 1..Len(tok) : tok[i] = ".") => tok[Len(tok)] # "0"
    /\ tok \notin {<<"-", "0">>}
    /\ IsDigit(tok[1]) \/ (Len(tok) >= 2 /\ tok[1] = "-" /\ IsDigit(tok[2]))

\* The command line is a value followed by -u <unit> -c <unit>.
FullForm == Len(argv) = 5 /\ argv[2] = ShortU /\ argv[4] = ShortC

\* C1: a value below the absolute zero of its source unit makes Args::run
\* fail, whatever the target unit: it returns an error and no converted
\* result, and the error text holds "below absolute zero", the value, the
\* source unit's full name and the source unit's threshold.
BelowAbsoluteZeroFails ==
    (Ran /\ FLt(Value, SpecAbsZero(Source))) =>
        /\ ~ret.ok
        /\ ret.result = NoResult
        /\ Contains(ret.text, <<"b", "e", "l", "o", "w", " ", "a", "b", "s", "o", "l", "u", "t", "e", " ", "z", "e", "r", "o">>)
        /\ Contains(ret.text, FmtDisplay(Value))
        /\ Contains(ret.text, SpecName(Source))
        /\ Contains(ret.text, <<"(">> \o SpecThresholdText(Source) \o <<")">>)
        /\ (FullForm /\ IsPlain(argv[1])) =>
               Contains(ret.text, <<"V", "a", "l", "u", "e", " ">> \o argv[1] \o <<" ", "i", "s", " ", "b", "e", "l", "o", "w">>)

BelowAbsoluteZeroFailsWitness ==
    /\ Ran /\ ~ret.ok
    /\ FullForm /\ argv[1] = <<"-", "2", "7", "3", ".", "1", "6">>
    /\ Source = "C" /\ Target = "K"

\* C2: being below absolute zero is the only failure: a value at or above
\* the absolute zero of its source unit makes Args::run succeed, the
\* threshold itself and negative values above it included.
AtOrAboveAbsoluteZeroSucceeds ==
    (Ran /\ FGe(Value, SpecAbsZero(Source))) => (ret.ok /\ ret.result # NoResult)

AtOrAboveAbsoluteZeroSucceedsWitness ==
    /\ Ran /\ ret.ok
    /\ Source = "F" /\ FullForm /\ argv[1] = <<"-", "4", "5", "9", ".", "6", "7">>
    /\ Value = SpecAbsZero("F")

\* C3: the value a successful Args::run converts to is
\* from_celsius(target, to_celsius(source, value)) with the formulas of the
\* claim, for all nine pairs of units, and it is not rounded.
RoutedThroughCelsius ==
    (Ran /\ ret.ok) =>
        ret.result = SpecFromCelsius(Target, SpecToCelsius(Source, Value))

RoutedThroughCelsiusWitness ==
    /\ Ran /\ ret.ok
    /\ Source = "K" /\ Target = "F"
    /\ FullForm /\ argv[1] = <<"9", "8", ".", "6">>
    /\ ret.result # Value

\* C4: Args::run returns a successful result only if
\* value >= absoluteZero(source), for every float the parser hands to it,
\* a not-a-number value and the infinities included.
SuccessOnlyIfValid ==
    (Ran /\ ret.ok) => FGe(Value, SpecAbsZero(Source))

\* C5: the round trip through Celsius, from_celsius(u, to_celsius(u, v)),
\* equals v within the tolerance 1e-10 for every unit u and every valid v.
Within(a, b) == FEq(a, b) \/ assert_approx_eq(a, b)

RoundTripAllValid ==
    (Ran /\ ret.ok /\ Source = Target /\ FGe(Value, SpecAbsZero(Source))) =>
        Within(ret.result, Value)

\* C5 as amended: the round trip equals v within 1e-10 for every unit and
\* every valid v of magnitude 100000 or less.
RoundTripLimit == Whole(FALSE, <<"1", "0", "0", "0", "0", "0">>)

RoundTripBounded ==
    (/\ Ran /\ ret.ok /\ Source = Target
     /\ FGe(Value, SpecAbsZero(Source))
     /\ FLe(FAbs(Value), RoundTripLimit)) =>
        Within(ret.result, Value)

RoundTripBoundedWitness ==
    /\ Ran /\ ret.ok
    /\ Source = "F" /\ Target = "F"
    /\ FullForm /\ argv[1] = <<"9", "8", ".", "6">>
    /\ assert_approx_eq(ret.result, Value)

\* C6: the one-way formulas hit the reference points within 1e-10:
\* to_celsius(F, 32) = 0, to_celsius(F, 212) = 100, to_celsius(F, -40) = -40,
\* to_celsius(K, 273.15) = 0, to_celsius(K, 0) = -273.15,
\* from_celsius(F, 0) = 32, from_celsius(F, 100) = 212,
\* from_celsius(K, 0) = 273.15, from_celsius(K, -273.15) = 0, and -40
\* Celsius is -40 Fahrenheit.  With Celsius on the other side a conversion
\* is the one-way formula.
Is(neg, digits, x) == FEq(Value, Lit(neg, digits, x))
Gives(neg, digits, x) == assert_approx_eq(ret.result, Lit(neg, digits, x))

ReferencePoints ==
    (Ran /\ ret.ok) =>
        /\ (Source = "F" /\ Target = "C") =>
              /\ Is(FALSE, <<"3", "2">>, 0) => Gives(FALSE, <<"0">>, 0)
              /\ Is(FALSE, <<"2", "1", "2">>, 0) => Gives(FALSE, <<"1", "0", "0">>, 0)
              /\ Is(TRUE, <<"4", "0">>, 0) => Gives(TRUE, <<"4", "0">>, 0)
        /\ (Source = "K" /\ Target = "C") =>
              /\ Is(FALSE, <<"2", "7", "3", "1", "5">>, -2) => Gives(FALSE, <<"0">>, 0)
              /\ Is(FALSE, <<"0">>, 0) => Gives(TRUE, <<"2", "7", "3", "1", "5">>, -2)
        /\ (Source = "C" /\ Target = "F") =>
              /\ Is(FALSE, <<"0">>, 0) => Gives(FALSE, <<"3", "2">>, 0)
              /\ Is(FALSE, <<"1", "0", "0">>, 0) => Gives(FALSE, <<"2", "1", "2">>, 0)
              /\ Is(TRUE, <<"4", "0">>, 0) => Gives(TRUE, <<"4", "0">>, 0)
        /\ (Source = "C" /\ Target = "K") =>
              /\ Is(FALSE, <<"0">>, 0) => Gives(FALSE, <<"2", "7", "3", "1", "5">>, -2)
              /\ Is(TRUE, <<"2", "7", "3", "1", "5">>, -2) => Gives(FALSE, <<"0">>, 0)

ReferencePointsWitness ==
    /\ Ran /\ ret.ok
    /\ Source = "F" /\ Target = "C"
    /\ Is(FALSE, <<"2", "1", "2">>, 0)
    /\ Gives(FALSE, <<"1", "0", "0">>, 0)

\* C7: every run of the process ends in exactly one outcome.  A help or
\* version request prints to standard output and exits with status 0, and
\* Args::run is never called; a malformed or missing argument writes to the
\* error stream and exits with a non-zero status, and Args::run is never
\* called; a validation failure writes its message to the error stream,
\* prints nothing on standard output and exits with a non-zero status; a
\* successful conversion prints the result on standard output and exits
\* with status 0.  Nothing is written before the outcome, and a process
\* that has not exited can take a step.
HelpOutcome ==
    stdout # <<>> /\ stderr = <<>> /\ exit_code = 0 /\ run_calls = 0
UsageOutcome ==
    stderr # <<>> /\ stdout = <<>> /\ exit_code > 0 /\ run_calls = 0
InvalidOutcome ==
    /\ run_calls = 1 /\ ~ret.ok
    /\ Contains(stderr, ret.text) /\ stdout = <<>> /\ exit_code > 0
SuccessOutcome ==
    /\ run_calls = 1 /\ ret.ok
    /\ Contains(stdout, ret.text) /\ stderr = <<>> /\ exit_code = 0

ProcessOutcomes ==
    /\ try_parse(argv).kind # "ok" => run_calls = 0
    /\ pc # "exit" =>
          /\ stdout = <<>> /\ stderr = <<>> /\ exit_code = -1
          /\ pc = "start" => try_parse(argv).kind \in {"help", "version", "error", "ok"}
          /\ pc = "run" => args # NoArgs /\ try_parse(argv).kind = "ok"
          /\ pc = "match" => ret # NoRet /\ ret.ok \in BOOLEAN
    /\ pc = "exit" =>
          /\ CASE try_parse(argv).kind \in {"help", "version"} -> HelpOutcome
               [] try_parse(argv).kind = "error" -> UsageOutcome
               [] try_parse(argv).kind = "ok" ->
                      IF ret.ok THEN SuccessOutcome ELSE InvalidOutcome
          /\ Cardinality({o \in {"help", "usage", "invalid", "success"} :
                             \/ o = "help" /\ HelpOutcome
                             \/ o = "usage" /\ UsageOutcome
                             \/ o = "invalid" /\ InvalidOutcome
                             \/ o = "success" /\ SuccessOutcome}) = 1

ProcessOutcomesWitness ==
    /\ pc = "exit" /\ InvalidOutcome
    /\ FLt(Value, SpecAbsZero(Source))

\* A text with two decimals: digits, a point and two digits, behind an
\* optional minus sign, reading back as a value within half a hundredth of a.
Finite(a) == a.k = "num"

HalfHundredth == FAdd(Lit(FALSE, <<"5">>, -3), EPSILON)

TwoDecimals(text, a) ==
    /\ Finite(a)
    /\ Len(text) >= 4
    /\ text[Len(text) - 2] = "."
    /\ IsDigit(text[Len(text) - 1]) /\ IsDigit(text[Len(text)])
    /\ \A i \in 2..(Len(text) - 3) : IsDigit(text[i])
    /\ IsDigit(text[1]) \/ text[1] = "-"
    /\ ParseF64(text).ok
    /\ FLe(FAbs(FSub(ParseF64(text).v, a)), HalfHundredth)

\* The words that stand for a value that is not finite.
NonFiniteText(a) ==
    CASE a.k = "nan" -> <<"N", "a", "N">>
      [] a.k = "inf" /\ a.s = 1 -> <<"-", "i", "n", "f">>
      [] a.k = "inf" /\ a.s = 0 -> <<"i", "n", "f">>

\* Two decimals for a finite value, its word for any other.
TwoDecimalsOrWord(text, a) ==
    IF Finite(a) THEN TwoDecimals(text, a) ELSE text = NonFiniteText(a)

\* The text between the first k characters of out and the first "deg" after them.
UpToDeg(out, k) ==
    SubSeq(out, k + 1,
           (CHOOSE j \in (k + 1)..Len(out) :
                out[j] = "deg" /\ \A h \in (k + 1)..(j - 1) : out[h] # "deg") - 1)

Sentence(given, out) ==
    given \o <<"deg">> \o SpecName(Source) \o <<" ", "i", "s", " ">> \o out \o <<"deg">> \o SpecName(Target)

\* The sentence Args::run returned and, at the exit, the output: the two
\* values around the two full names, and the two examples.
SentenceShape(given, out) ==
    /\ ret.text = COLOR_GREEN \o Sentence(given, out) \o COLOR_RESET
    /\ pc = "exit" => Contains(stdout, Sentence(given, out))
    /\ (pc = "exit" /\ Source = "F" /\ Target = "C" /\ Is(FALSE, <<"3", "2">>, 0)) =>
           Contains(stdout, <<"3", "2", ".", "0", "0", "deg", "F", "a", "h", "r", "e", "n", "h", "e", "i", "t", " ", "i", "s", " ", "0", ".", "0", "0", "deg", "C", "e", "l", "s", "i", "u", "s">>)
    /\ (pc = "exit" /\ Source = "C" /\ Target = "K" /\ Is(FALSE, <<"0">>, 0)) =>
           Contains(stdout, <<"0", ".", "0", "0", "deg", "C", "e", "l", "s", "i", "u", "s", " ", "i", "s", " ", "2", "7", "3", ".", "1", "5", "deg", "K", "e", "l", "v", "i", "n">>)

GivenText == UpToDeg(ret.text, Len(COLOR_GREEN))
OutText ==
    UpToDeg(ret.text, Len(COLOR_GREEN) + Len(GivenText) + 1 + Len(SpecName(Source)) + 4)

\* C8: on success the output sentence holds, in this order, the input value
\* formatted to two decimal places, the source unit's full name, the
\* converted value formatted to two decimal places and the target unit's
\* full name, as "<in>deg<Source> is <out>deg<Target>", for every successful
\* conversion; 32 Fahrenheit to Celsius gives
\* "32.00degFahrenheit is 0.00degCelsius" and 0 Celsius to Kelvin gives
\* "0.00degCelsius is 273.15degKelvin".
OutputTwoDecimalsAlways ==
    (Ran /\ ret.ok) =>
        /\ SentenceShape(GivenText, OutText)
        /\ TwoDecimals(GivenText, Value)
        /\ TwoDecimals(OutText, ret.result)

\* C8 as amended: on success the output sentence has the form
\* "<in>deg<Source> is <out>deg<Target>" with the two full names, where <in>
\* and <out> have two decimal places when the input value, respectively the
\* converted value, is finite, and are the word inf, -inf or NaN when it is
\* not; the two examples come out as stated.
OutputFormat ==
    (Ran /\ ret.ok) =>
        /\ SentenceShape(GivenText, OutText)
        /\ TwoDecimalsOrWord(GivenText, Value)
        /\ TwoDecimalsOrWord(OutText, ret.result)

OutputFormatWitness ==
    /\ pc = "exit" /\ run_calls = 1 /\ ret.ok
    /\ Source = "C" /\ Target = "K" /\ argv[1] = <<"0">>
    /\ Contains(stdout, <<"0", ".", "0", "0", "deg", "C", "e", "l", "s", "i", "u", "s", " ", "i", "s", " ", "2", "7", "3", ".", "1", "5", "deg", "K", "e", "l", "v", "i", "n">>)

\* C9: a command line holding only a bare numeric value is parsed to that
\* value, source unit Fahrenheit and target unit Celsius; a flag that is
\* given overrides only its own unit and leaves the other at its default.
StartsWith(tok, prefix) ==
    Len(tok) >= Len(prefix) /\ SubSeq(tok, 1, Len(prefix)) = prefix

GivesUnit == \E i \in 1..Len(argv) : StartsWith(argv[i], ShortU) \/ StartsWith(argv[i], DashUnit)
GivesConvert ==
    \E i \in 1..Len(argv) : StartsWith(argv[i], ShortC) \/ StartsWith(argv[i], DashConvert)

ParsingDefaults ==
    (pc # "start" /\ args # NoArgs) =>
        /\ Len(argv) = 1 =>
              /\ ParseF64(argv[1]).ok /\ Value = ParseF64(argv[1]).v
              /\ Source = "F" /\ Target = "C"
        /\ argv = <<<<"1", "0", "0">>>> => FEq(Value, Whole(FALSE, <<"1", "0", "0">>))
        /\ ~GivesUnit => Source = "F"
        /\ ~GivesConvert => Target = "C"
        /\ (Len(argv) = 3 /\ argv[1] = ShortU) =>
              /\ ToLower(SubSeq(SpecName(Source), 1, 1)) = ToLower(SubSeq(argv[2], 1, 1))
              /\ Target = "C"
        /\ (Len(argv) = 3 /\ argv[2] = DashConvert) =>
              /\ ToLower(SubSeq(SpecName(Target), 1, 1)) = ToLower(SubSeq(argv[3], 1, 1))
              /\ Source = "F"

ParsingDefaultsWitness ==
    /\ pc # "start" /\ args # NoArgs
    /\ argv = <<<<"1", "0", "0">>>>
    /\ Source = "F" /\ Target = "C"

\* C10: conversion preserves validity: a value at or above the absolute
\* zero of its source unit converts to a value at or above the absolute
\* zero of the target unit, a value at the source's absolute zero converts
\* to the target's absolute zero (within 1e-10), and Args::run accepts the
\* result of a successful conversion as a value of the target unit.
ValidityPreserved ==
    (Ran /\ ret.ok /\ FGe(Value, SpecAbsZero(Source))) =>
        /\ FGe(ret.result, SpecAbsZero(Target))
        /\ FEq(Value, SpecAbsZero(Source)) =>
               assert_approx_eq(ret.result, SpecAbsZero(Target))
        /\ run([value |-> ret.result, value_unit |-> Target, convert |-> Target]).ok

ValidityPreservedWitness ==
    /\ Ran /\ ret.ok
    /\ Source = "K" /\ Target = "F"
    /\ FEq(Value, SpecAbsZero("K"))
    /\ ret.result # SpecAbsZero("F")
    /\ assert_approx_eq(ret.result, SpecAbsZero("F"))

====
